---- MODULE Spec2Model ----
(***************************************************************************)
(* Model of the Status API of the Rentverse status page                   *)
(* (functions/api/status.js): the record-check endpoint that folds each    *)
(* check batch into a per-service history of day aggregates kept in a      *)
(* key-value store, under sequential and under interleaved requests; and   *)
(* of the response-time graph of the dashboard (checker.js).               *)
(*                                                                         *)
(* Encodings.  A calendar date "YYYY-MM-DD" is the number of the UTC day   *)
(* since the epoch (the two are in bijection).  JS null / undefined for a  *)
(* response time is Null; a missing object key is a key outside DOMAIN.    *)
(* A history is a sequence (1-based) of entry records.                     *)
(***************************************************************************)
EXTENDS Integers, Sequences, FiniteSets, TLC

VARIABLES
    secret,     \* env.CRON_SECRET ("" when not configured)
    kv,         \* env.STATUS_HISTORY: function from the written keys to values
    pc,         \* per request context: position in recordCheck
    body,       \* per request context: the parsed body {checks, timestamp}
    today,      \* per request context: const today
    svc,        \* per request context: index of the loop over services
    history,    \* per request context: let history in recordCheck (as read from
                \* the store), const history in getStatus
    resp,       \* per request context: status of the last response (0: none yet)
    method,     \* per request context: request.method of the last request
    hdr,        \* per request context: the Authorization header of the last POST
    reply,      \* per request context: the body getStatus builds and returns
    clean,      \* per request context: no put since its GET was entered
    posts,      \* number of POST requests accepted so far
    top,        \* largest day number a timestamp was issued for (long runs)
    odd,        \* whether the irregular delivery of a long run was used
    log,        \* successful POSTs in order of completion: <<[date, checks]>>
    serviceStatuses,        \* dashboard: let serviceStatuses
    responseTimeHistory,    \* dashboard: let responseTimeHistory
    clock,      \* dashboard: Date.now() at the last refresh, from page load
    refreshes   \* dashboard: number of refreshAll calls so far

dashVars == <<serviceStatuses, responseTimeHistory, clock, refreshes>>

vars == <<secret, kv, pc, body, today, svc, history, resp, method, hdr, reply,
          clean, posts, top, odd, log, dashVars>>

----------------------------------------------------------------------------
(* Bounds *)

MaxPosts == 3        \* POST requests accepted in a short run
NumDays == 32        \* consecutive days covered by a long run
MaxConcPosts == 2    \* POST requests accepted in a short run with overlapping requests
MaxLate == 2         \* how many days late a delivery may be stamped
MaxApiPosts == 2     \* POST requests accepted in a run over the whole route

\* request contexts the platform runs concurrently; a request takes the first
\* free one
Procs == <<"r1", "r2">>
ProcSet == {Procs[i] : i \in 1..Len(Procs)}

----------------------------------------------------------------------------
(* Program constants and value domains *)

Null == -1                    \* JS null / undefined in a numeric field
MsPerDay == 86400000          \* Date: milliseconds per UTC day
KeepDays == 30                \* entries kept by the trim

Services == <<"frontend", "backend", "database">>
ServiceSet == {Services[i] : i \in 1..Len(Services)}

HistoryKey(service) == "uptime:" \o service
LatestKey == "latest"

NoHeader == "<null>"          \* request.headers.get() returned null
Bearer(token) == "Bearer " \o token

----------------------------------------------------------------------------
(* Pure parts of recordCheck *)

\* new Date(timestamp).toISOString().split('T')[0]
ToISODate(timestamp) == timestamp \div MsPerDay

\* new Date(undefined) is an invalid date: toISOString throws RangeError
ValidTimestamp(b) == "timestamp" \in DOMAIN b

\* x || null  for a numeric x
OrNull(x) == IF x = Null \/ x = 0 THEN Null ELSE x

\* JS truthiness of a numeric-or-null value
Truthy(x) == x # Null /\ x # 0

\* Math.round((a + b) / 2) for non-negative integers
RoundMean(a, b) == (a + b + 1) \div 2

\* a missing check counted as a good one
IncomingStatusOptimistic(checks, service) ==
    IF service \in DOMAIN checks /\ "status" \in DOMAIN checks[service]
    THEN checks[service].status ELSE "operational"

\* checks[service]?.status || 'unknown'
IncomingStatus(checks, service) ==
    IF service \in DOMAIN checks /\ "status" \in DOMAIN checks[service]
    THEN checks[service].status ELSE "unknown"

\* checks[service]?.responseTime || null
IncomingResponseTime(checks, service) ==
    IF service \in DOMAIN checks /\ "responseTime" \in DOMAIN checks[service]
    THEN OrNull(checks[service].responseTime) ELSE Null

\* findIndex that never finds the entry
FindIndexNever(h, date) == 0

\* history.findIndex(h => h.date === today), 1-based, 0 when there is none
FindIndex(h, date) ==
    IF \E i \in 1..Len(h) : h[i].date = date
    THEN CHOOSE i \in 1..Len(h) :
            /\ h[i].date = date
            /\ \A j \in 1..(i - 1) : h[j].date # date
    ELSE 0

\* const entry = { date, status, responseTime, checks: 1 }
NewEntry(checks, service, date) ==
    [date |-> date,
     status |-> IncomingStatus(checks, service),
     responseTime |-> IncomingResponseTime(checks, service),
     checks |-> 1]

\* escalation that forgets a day already marked down
EscalateStatusForgetful(existing, checks, service) ==
    IF IncomingStatus(checks, service) = "down"
    THEN "down"
    ELSE IF existing.status = "partial" \/ IncomingStatus(checks, service) = "degraded"
    THEN "partial"
    ELSE IncomingStatus(checks, service)

\* the status of the updated entry (if / else if on existing and incoming)
EscalateStatus(existing, checks, service) ==
    IF existing.status = "down" \/ IncomingStatus(checks, service) = "down"
    THEN "down"
    ELSE IF existing.status = "partial" \/ IncomingStatus(checks, service) = "degraded"
    THEN "partial"
    ELSE IncomingStatus(checks, service)

\* the response time of the updated entry
AverageResponseTime(existing, checks, service) ==
    IF Truthy(existing.responseTime) /\ Truthy(IncomingResponseTime(checks, service))
    THEN RoundMean(existing.responseTime, IncomingResponseTime(checks, service))
    ELSE IncomingResponseTime(checks, service)

\* the branch existingIndex >= 0: the entry that replaces the existing one
UpdatedEntry(existing, checks, service, date) ==
    [date |-> date,
     status |-> EscalateStatus(existing, checks, service),
     responseTime |-> AverageResponseTime(existing, checks, service),
     checks |-> existing.checks + 1]

\* a trim that keeps one entry too many
SliceLastOffByOne(h) ==
    IF Len(h) > KeepDays + 1 THEN SubSeq(h, Len(h) - KeepDays, Len(h)) ELSE h

\* history.slice(-30)
SliceLast(h) ==
    IF Len(h) > KeepDays THEN SubSeq(h, Len(h) - KeepDays + 1, Len(h)) ELSE h

\* an update that moves the day's entry to the end of the history
AggregateMoveToEnd(h, checks, service, date) ==
    LET existingIndex == FindIndex(h, date) IN
    SliceLast(IF existingIndex >= 1
              THEN Append(SelectSeq(h, LAMBDA e : e.date # date),
                          UpdatedEntry(h[existingIndex], checks, service, date))
              ELSE Append(h, NewEntry(checks, service, date)))

\* one pass of the loop body between the get and the put
Aggregate(h, checks, service, date) ==
    LET existingIndex == FindIndex(h, date) IN
    SliceLast(IF existingIndex >= 1
              THEN [h EXCEPT ![existingIndex] =
                        UpdatedEntry(h[existingIndex], checks, service, date)]
              ELSE Append(h, NewEntry(checks, service, date)))

----------------------------------------------------------------------------
(* The key-value store *)

\* await env.STATUS_HISTORY.get(historyKey, 'json') || []
KVGetHistory(store, service) ==
    IF HistoryKey(service) \in DOMAIN store THEN store[HistoryKey(service)] ELSE <<>>

\* a put that merges the fields of the new latest record into the old one
KVPutMerge(store, key, value) ==
    [k \in DOMAIN store \cup {key} |->
        IF k # key THEN store[k]
        ELSE IF key = LatestKey /\ key \in DOMAIN store
        THEN [f \in DOMAIN store[key] \cup DOMAIN value |->
                IF f \in DOMAIN value THEN value[f] ELSE store[key][f]]
        ELSE value]

\* await env.STATUS_HISTORY.put(key, JSON.stringify(value))
KVPut(store, key, value) ==
    [k \in DOMAIN store \cup {key} |-> IF k = key THEN value ELSE store[k]]

\* { ...checks, timestamp }  (JSON.stringify drops an undefined timestamp)
LatestValue(b) ==
    [k \in DOMAIN b.checks \cup (IF ValidTimestamp(b) THEN {"timestamp"} ELSE {}) |->
        IF k = "timestamp" THEN b.timestamp ELSE b.checks[k]]

----------------------------------------------------------------------------
(* Inputs: the batches the checker delivers *)

\* per-probe results: {status, responseTime}; the last slot is a service
\* that is missing from checks
CheckResults ==
    <<[status |-> "operational", responseTime |-> 100],
      [status |-> "degraded", responseTime |-> 200],
      [status |-> "down", responseTime |-> Null],
      [status |-> "unknown", responseTime |-> 0],
      [absent |-> TRUE]>>

ResultFor(i, k) == CheckResults[((i + k) % Len(CheckResults)) + 1]

\* the k-th batch: service i carries result i + k (cyclically), so that over
\* the batches every service sees every result and every batch but one
\* misses one service
Payload(k) ==
    [s \in {Services[i] : i \in {j \in 1..Len(Services) : "status" \in DOMAIN ResultFor(j, k)}} |->
        LET i == CHOOSE j \in 1..Len(Services) : Services[j] = s IN ResultFor(i, k)]

RichChecks == {Payload(k) : k \in 0..(Len(CheckResults) - 1)}

\* first and last millisecond of day 0, first millisecond of day 1
RichTimestamps == {0, MsPerDay - 1, MsPerDay}

RichBodies ==
    {[checks |-> c, timestamp |-> t] : c \in RichChecks, t \in RichTimestamps}
    \cup {[checks |-> Payload(0)]}

\* long runs: one batch a day, days FirstDay..LastDay
FirstDay == 0 - (NumDays \div 2)
LastDay == FirstDay + NumDays - 1
LongChecks == Payload(0)

\* the regular delivery is stamped with the next day; at most one delivery
\* of a long run is irregular: it repeats the current day, is stamped up to
\* MaxLate days late or a whole retention window late, has no timestamp at
\* all, or overlaps another request
LateBy == (0..MaxLate) \cup {KeepDays}

LongBodies ==
    {[checks |-> LongChecks, timestamp |-> (top + 1) * MsPerDay] : x \in {y \in {1} : top < LastDay}}
    \cup {[checks |-> LongChecks, timestamp |-> (top - k) * MsPerDay + k] :
            k \in {j \in LateBy : /\ ~odd
                                  /\ top >= FirstDay
                                  /\ (j > MaxLate => top - j >= FirstDay)}}
    \cup {[checks |-> LongChecks] : x \in {y \in {1} : ~odd}}

\* short runs with overlapping requests: two batches (one reports down
\* where the other reports operational), two dates
ConcBodies ==
    {[checks |-> c, timestamp |-> t] : c \in {Payload(1), Payload(4)}, t \in {0, MsPerDay}}
    \cup {[checks |-> Payload(0)]}

IsRegular(b) == ValidTimestamp(b) /\ ToISODate(b.timestamp) = top + 1

Headers == {NoHeader, Bearer("abc"), Bearer("wrong")}
Secrets == {"", "abc"}
Methods == {"GET", "POST", "OPTIONS", "PUT", "DELETE"}

NoBody == [checks |-> <<>>]
NoReply == [history |-> <<>>]
InFlight(p) == pc[p] # "idle"

\* the context a new request runs in
FirstFree(p) ==
    \E i \in 1..Len(Procs) :
        /\ Procs[i] = p
        /\ ~InFlight(p)
        /\ \A j \in 1..(i - 1) : InFlight(Procs[j])

\* a request arrives in context p; serial: requests arrive one after another
Arrives(p, serial) ==
    /\ FirstFree(p)
    /\ serial => \A q \in ProcSet : ~InFlight(q)

----------------------------------------------------------------------------
(* onRequest and getStatus *)

\* a dispatch that sends every method but GET and OPTIONS to recordCheck
DispatchPostByDefault(m) ==
    IF m = "OPTIONS" THEN "preflight"
    ELSE IF m = "GET" THEN "getStatus"
    ELSE "recordCheck"

\* onRequest: the handler a method is dispatched to
Dispatch(m) ==
    IF m = "OPTIONS" THEN "preflight"
    ELSE IF m = "GET" THEN "getStatus"
    ELSE IF m = "POST" THEN "recordCheck"
    ELSE "notAllowed"

\* getStatus that answers a missing key with null
GetStatusHistoryNull(store, service) ==
    IF HistoryKey(service) \in DOMAIN store
    THEN store[HistoryKey(service)] ELSE <<"null">>

\* getStatus: data || []  after  get(`uptime:${service}`, 'json')
GetStatusHistory(store, service) ==
    IF HistoryKey(service) \in DOMAIN store
    THEN store[HistoryKey(service)] ELSE <<>>

\* getStatus: get('latest', 'json') || {}
GetStatusLatest(store) ==
    IF LatestKey \in DOMAIN store THEN store[LatestKey] ELSE <<>>

\* an auth check that compares the header with the bare token
AuthFailsNoPrefix(expectedToken, authHeader) ==
    expectedToken # "" /\ authHeader # expectedToken

\* recordCheck: expectedToken && authHeader !== `Bearer ${expectedToken}`
AuthFails(expectedToken, authHeader) ==
    expectedToken # "" /\ authHeader # Bearer(expectedToken)

----------------------------------------------------------------------------
(* Actions: the steps of onRequest between two awaits *)

(* The dashboard: the response-time graph *)

\* the refreshAll calls of a run
MaxRefresh == 3

\* const FIFTEEN_MINUTES = 15 * 60 * 1000
FifteenMinutes == 900000
RefreshInterval == 30000
GraphPoints == 5
GraphServices == {"frontend", "backend"}

\* { status: 'checking', responseTime: null }
Checking == [status |-> "checking", responseTime |-> Null]

\* what a refresh finds: the service answers, or the fetch fails
FrontendResults == {[status |-> "operational", responseTime |-> 60],
                    [status |-> "down", responseTime |-> Null]}
BackendResults == {[status |-> "operational", responseTime |-> 200],
                   [status |-> "down", responseTime |-> Null]}

\* time between two refreshes: the timer, or a quarter of an hour
Elapsed == {RefreshInterval, FifteenMinutes}

\* Math.random() * 50 - 25 and Math.random() * 100 - 50, at their ends
FrontendVariances == {0 - 25, 24}
BackendVariances == {0 - 50, 49}

\* the five draws of one run of the demo loop: all low, all high, alternating
VarianceRuns(V) ==
    LET lo == CHOOSE v \in V : \A w \in V : v <= w
        hi == CHOOSE v \in V : \A w \in V : v >= w IN
    {[k \in 1..5 |-> lo], [k \in 1..5 |-> hi],
     [k \in 1..5 |-> IF k % 2 = 1 THEN lo ELSE hi]}

Max(a, b) == IF a >= b THEN a ELSE b

\* push({timestamp: now, value}) when the last point is 15 minutes old or
\* there is none; shift() when the length exceeds 5
PushPoint(h, now, time) ==
    IF time # Null /\ (h = <<>> \/ now - h[Len(h)].timestamp >= FifteenMinutes)
    THEN LET g == Append(h, [timestamp |-> now, value |-> time]) IN
         IF Len(g) > GraphPoints THEN Tail(g) ELSE g
    ELSE h

\* if (history.length < 2 && time !== null) for (i = 4; i >= 0; i--) push(...)
DemoPoints(h, now, time, floor, variance) ==
    IF Len(h) < 2 /\ time # Null
    THEN h \o [k \in 1..5 |->
                [timestamp |-> now - (5 - k) * FifteenMinutes,
                 value |-> Max(floor, time + variance[k])]]
    ELSE h

\* updateResponseGraph, for one service
UpdateResponseGraph(h, now, time, floor, variance) ==
    DemoPoints(PushPoint(h, now, time), now, time, floor, variance)

----------------------------------------------------------------------------
Init ==
    /\ secret \in Secrets
    /\ kv = <<>>
    /\ pc = [p \in ProcSet |-> "idle"]
    /\ method = [p \in ProcSet |-> "none"]
    /\ hdr = [p \in ProcSet |-> NoHeader]
    /\ body = [p \in ProcSet |-> NoBody]
    /\ today = [p \in ProcSet |-> 0]
    /\ svc = [p \in ProcSet |-> 0]
    /\ history = [p \in ProcSet |-> <<>>]
    /\ resp = [p \in ProcSet |-> 0]
    /\ reply = [p \in ProcSet |-> NoReply]
    /\ clean = [p \in ProcSet |-> FALSE]
    /\ posts = 0
    /\ top = FirstDay - 1
    /\ odd = FALSE
    /\ log = <<>>
    /\ serviceStatuses = [s \in ServiceSet |-> Checking]
    /\ responseTimeHistory = [s \in GraphServices |-> <<>>]
    /\ clock = 0
    /\ refreshes = 0

\* if (request.method === 'OPTIONS') return new Response(null, ...)
Preflight(p, serial) ==
    /\ Arrives(p, serial)
    /\ \E m \in Methods :
        /\ Dispatch(m) = "preflight"
        /\ method' = [method EXCEPT ![p] = m]
    /\ hdr' = [hdr EXCEPT ![p] = NoHeader]
    /\ resp' = [resp EXCEPT ![p] = 200]
    /\ UNCHANGED <<dashVars, secret, kv, pc, body, today, svc, history, reply, clean,
                   posts, top, odd, log>>

\* return new Response('Method not allowed', { status: 405 })
NotAllowed(p, serial) ==
    /\ Arrives(p, serial)
    /\ \E m \in Methods :
        /\ Dispatch(m) = "notAllowed"
        /\ method' = [method EXCEPT ![p] = m]
    /\ hdr' = [hdr EXCEPT ![p] = NoHeader]
    /\ resp' = [resp EXCEPT ![p] = 405]
    /\ UNCHANGED <<dashVars, secret, kv, pc, body, today, svc, history, reply, clean,
                   posts, top, odd, log>>

\* getStatus is entered: const history = {}
\* (reply keeps the body of the context's previous GET response as long as
\* no put has happened since that GET was entered)
GetStatus(p, serial) ==
    /\ Arrives(p, serial)
    /\ \E m \in Methods :
        /\ Dispatch(m) = "getStatus"
        /\ method' = [method EXCEPT ![p] = m]
    /\ hdr' = [hdr EXCEPT ![p] = NoHeader]
    /\ resp' = [resp EXCEPT ![p] = 0]
    /\ reply' = [reply EXCEPT ![p] = IF clean[p] THEN reply[p] ELSE NoReply]
    /\ clean' = [clean EXCEPT ![p] = TRUE]
    /\ pc' = [pc EXCEPT ![p] = "read"]
    /\ svc' = [svc EXCEPT ![p] = 1]
    /\ history' = [history EXCEPT ![p] = <<>>]
    /\ UNCHANGED <<dashVars, secret, kv, body, today, posts, top, odd, log>>

\* a getStatus that stores the default of a missing key
ReadHistoryWriteBack(p) ==
    /\ pc[p] = "read"
    /\ LET service == Services[svc[p]]
           h == history[p] IN
       /\ history' = [history EXCEPT ![p] =
                        [s \in DOMAIN h \cup {service} |->
                            IF s = service THEN GetStatusHistory(kv, service) ELSE h[s]]]
       /\ kv' = KVPut(kv, HistoryKey(service), GetStatusHistory(kv, service))
    /\ IF svc[p] < Len(Services)
       THEN svc' = [svc EXCEPT ![p] = svc[p] + 1] /\ pc' = pc
       ELSE svc' = [svc EXCEPT ![p] = 0] /\ pc' = [pc EXCEPT ![p] = "readLatest"]
    /\ UNCHANGED <<dashVars, secret, method, hdr, body, today, resp, reply, clean,
                   posts, top, odd, log>>

\* history[service] = (await get(`uptime:${service}`, 'json')) || []
ReadHistory(p) ==
    /\ pc[p] = "read"
    /\ LET service == Services[svc[p]]
           h == history[p] IN
       history' = [history EXCEPT ![p] =
                      [s \in DOMAIN h \cup {service} |->
                          IF s = service THEN GetStatusHistory(kv, service) ELSE h[s]]]
    /\ IF svc[p] < Len(Services)
       THEN svc' = [svc EXCEPT ![p] = svc[p] + 1] /\ pc' = pc
       ELSE svc' = [svc EXCEPT ![p] = 0] /\ pc' = [pc EXCEPT ![p] = "readLatest"]
    /\ UNCHANGED <<dashVars, secret, kv, method, hdr, body, today, resp, reply, clean,
                   posts, top, odd, log>>

\* const latest = await get('latest', 'json') || {}; the response
\* JSON.stringify({ history, latest })
ReadLatest(p) ==
    /\ pc[p] = "readLatest"
    /\ reply' = [reply EXCEPT ![p] =
                    [history |-> history[p], latest |-> GetStatusLatest(kv)]]
    /\ history' = [history EXCEPT ![p] = <<>>]
    /\ resp' = [resp EXCEPT ![p] = 200]
    /\ pc' = [pc EXCEPT ![p] = "idle"]
    /\ UNCHANGED <<dashVars, secret, kv, method, hdr, body, today, svc, clean,
                   posts, top, odd, log>>

\* an auth check that also rejects a request without Authorization header
\* when no secret is configured
UnauthorizedNoHeader(p, serial) ==
    /\ Arrives(p, serial)
    /\ \E m \in Methods, h \in Headers :
        /\ Dispatch(m) = "recordCheck"
        /\ AuthFails(secret, h) \/ (secret = "" /\ h = NoHeader)
        /\ method' = [method EXCEPT ![p] = m]
        /\ hdr' = [hdr EXCEPT ![p] = h]
    /\ resp' = [resp EXCEPT ![p] = 401]
    /\ UNCHANGED <<dashVars, secret, kv, pc, body, today, svc, history, reply, clean,
                   posts, top, odd, log>>

\* if (expectedToken && authHeader !== `Bearer ${expectedToken}`) return 401
Unauthorized(p, serial) ==
    /\ Arrives(p, serial)
    /\ \E m \in Methods, h \in Headers :
        /\ Dispatch(m) = "recordCheck"
        /\ AuthFails(secret, h)
        /\ method' = [method EXCEPT ![p] = m]
        /\ hdr' = [hdr EXCEPT ![p] = h]
    /\ resp' = [resp EXCEPT ![p] = 401]
    /\ UNCHANGED <<dashVars, secret, kv, pc, body, today, svc, history, reply, clean,
                   posts, top, odd, log>>

\* the auth check passes; the handler awaits request.json()
\* serial: requests arrive one after another; long: a long run, where a
\* request that overlaps another one counts as an irregular delivery;
\* limit: the POST requests a short run accepts
Authorized(p, serial, long, limit) ==
    /\ Arrives(p, serial)
    /\ \E m \in Methods, h \in Headers :
        /\ Dispatch(m) = "recordCheck"
        /\ ~AuthFails(secret, h)
        /\ method' = [method EXCEPT ![p] = m]
        /\ hdr' = [hdr EXCEPT ![p] = h]
    /\ IF long
       THEN /\ top + Cardinality({q \in ProcSet : pc[q] = "parse"}) < LastDay
            /\ IF \E q \in ProcSet : InFlight(q)
               THEN ~odd /\ odd' = TRUE
               ELSE odd' = odd
       ELSE posts < limit /\ odd' = odd
    /\ pc' = [pc EXCEPT ![p] = "parse"]
    /\ resp' = [resp EXCEPT ![p] = 0]
    /\ posts' = posts + 1
    /\ UNCHANGED <<dashVars, secret, kv, body, today, svc, history, reply, clean, top, log>>

\* const { checks, timestamp } = body; await put('latest', {...checks, timestamp})
StoreLatest(p, Bodies, long) ==
    /\ pc[p] = "parse"
    /\ \E b \in Bodies :
        /\ body' = [body EXCEPT ![p] = b]
        /\ kv' = KVPut(kv, LatestKey, LatestValue(b))
        /\ IF long
           THEN IF IsRegular(b)
                THEN top' = top + 1 /\ odd' = odd
                ELSE top' = top /\ odd' = TRUE
           ELSE UNCHANGED <<top, odd>>
    /\ pc' = [pc EXCEPT ![p] = "get"]
    /\ svc' = [svc EXCEPT ![p] = 1]
    /\ clean' = [q \in ProcSet |-> FALSE]
    /\ reply' = [q \in ProcSet |-> NoReply]
    /\ UNCHANGED <<dashVars, secret, method, hdr, today, history, resp, posts, log>>

\* new Date(timestamp).toISOString() throws; onRequest answers 500
InvalidDate(p) ==
    /\ pc[p] = "get"
    /\ svc[p] = 1
    /\ ~ValidTimestamp(body[p])
    /\ pc' = [pc EXCEPT ![p] = "idle"]
    /\ resp' = [resp EXCEPT ![p] = 500]
    /\ body' = [body EXCEPT ![p] = NoBody]
    /\ svc' = [svc EXCEPT ![p] = 0]
    /\ UNCHANGED <<dashVars, secret, kv, method, hdr, today, history, reply, clean,
                   posts, top, odd, log>>

\* let history = await get(historyKey, 'json') || []
GetHistory(p) ==
    /\ pc[p] = "get"
    /\ ValidTimestamp(body[p])
    /\ today' = [today EXCEPT ![p] = ToISODate(body[p].timestamp)]
    /\ history' = [history EXCEPT ![p] = KVGetHistory(kv, Services[svc[p]])]
    /\ pc' = [pc EXCEPT ![p] = "put"]
    /\ UNCHANGED <<dashVars, secret, kv, method, hdr, body, svc, resp, reply, clean,
                   posts, top, odd, log>>

\* a put that aggregates into the history the store holds at the put
PutHistoryAtomic(p) ==
    /\ pc[p] = "put"
    /\ kv' = KVPut(kv, HistoryKey(Services[svc[p]]),
                   Aggregate(KVGetHistory(kv, Services[svc[p]]), body[p].checks,
                             Services[svc[p]], today[p]))
    /\ IF svc[p] < Len(Services)
       THEN /\ svc' = [svc EXCEPT ![p] = svc[p] + 1]
            /\ pc' = [pc EXCEPT ![p] = "get"]
            /\ history' = [history EXCEPT ![p] = <<>>]
            /\ UNCHANGED <<body, today, resp, log>>
       ELSE /\ svc' = [svc EXCEPT ![p] = 0]
            /\ pc' = [pc EXCEPT ![p] = "idle"]
            /\ history' = [history EXCEPT ![p] = <<>>]
            /\ body' = [body EXCEPT ![p] = NoBody]
            /\ today' = [today EXCEPT ![p] = 0]
            /\ resp' = [resp EXCEPT ![p] = 200]
            /\ log' = Append(log, [date |-> today[p], checks |-> body[p].checks])
    /\ clean' = [q \in ProcSet |-> FALSE]
    /\ reply' = [q \in ProcSet |-> NoReply]
    /\ UNCHANGED <<dashVars, secret, method, hdr, posts, top, odd>>

\* findIndex ... slice(-30); await put(historyKey, history); next service,
\* or the response {success: true, timestamp} after the last one
PutHistory(p) ==
    /\ pc[p] = "put"
    /\ kv' = KVPut(kv, HistoryKey(Services[svc[p]]),
                   Aggregate(history[p], body[p].checks, Services[svc[p]], today[p]))
    /\ IF svc[p] < Len(Services)
       THEN /\ svc' = [svc EXCEPT ![p] = svc[p] + 1]
            /\ pc' = [pc EXCEPT ![p] = "get"]
            /\ history' = [history EXCEPT ![p] = <<>>]
            /\ UNCHANGED <<body, today, resp, log>>
       ELSE /\ svc' = [svc EXCEPT ![p] = 0]
            /\ pc' = [pc EXCEPT ![p] = "idle"]
            /\ history' = [history EXCEPT ![p] = <<>>]
            /\ body' = [body EXCEPT ![p] = NoBody]
            /\ today' = [today EXCEPT ![p] = 0]
            /\ resp' = [resp EXCEPT ![p] = 200]
            /\ log' = Append(log, [date |-> today[p], checks |-> body[p].checks])
    /\ clean' = [q \in ProcSet |-> FALSE]
    /\ reply' = [q \in ProcSet |-> NoReply]
    /\ UNCHANGED <<dashVars, secret, method, hdr, posts, top, odd>>

\* a failure that takes back the latest record the request wrote
StoreErrorRollback(p) ==
    /\ pc[p] \in {"parse", "get", "put", "read", "readLatest"}
    /\ pc[p] = "get" => ValidTimestamp(body[p])
    /\ kv' = IF pc[p] \in {"get", "put"}
             THEN [k \in DOMAIN kv \ {LatestKey} |-> kv[k]]
             ELSE kv
    /\ pc' = [pc EXCEPT ![p] = "idle"]
    /\ resp' = [resp EXCEPT ![p] = 500]
    /\ body' = [body EXCEPT ![p] = NoBody]
    /\ today' = [today EXCEPT ![p] = 0]
    /\ svc' = [svc EXCEPT ![p] = 0]
    /\ history' = [history EXCEPT ![p] = <<>>]
    /\ UNCHANGED <<dashVars, secret, method, hdr, reply, clean, posts, top, odd, log>>

\* a get or a put of the store throws (the store is unavailable): the catch
\* of onRequest answers 500; what was written before stays written
StoreError(p) ==
    /\ pc[p] \in {"parse", "get", "put", "read", "readLatest"}
    /\ pc[p] = "get" => ValidTimestamp(body[p])
    /\ pc' = [pc EXCEPT ![p] = "idle"]
    /\ resp' = [resp EXCEPT ![p] = 500]
    /\ body' = [body EXCEPT ![p] = NoBody]
    /\ today' = [today EXCEPT ![p] = 0]
    /\ svc' = [svc EXCEPT ![p] = 0]
    /\ history' = [history EXCEPT ![p] = <<>>]
    /\ UNCHANGED <<dashVars, secret, kv, method, hdr, reply, clean, posts, top, odd, log>>

\* refreshAll: the statuses are renewed (checkFrontend, checkBackend), then
\* updateResponseGraph runs with const now = Date.now()
RefreshAll ==
    /\ refreshes < MaxRefresh
    /\ \E f \in FrontendResults, b \in BackendResults, dt \in Elapsed,
          vf \in VarianceRuns(FrontendVariances), vb \in VarianceRuns(BackendVariances) :
        LET now == clock + dt IN
        /\ clock' = now
        /\ serviceStatuses' = [frontend |-> f, backend |-> b, database |-> b]
        /\ responseTimeHistory' =
              [frontend |-> UpdateResponseGraph(responseTimeHistory["frontend"], now,
                                                f.responseTime, 50, vf),
               backend |-> UpdateResponseGraph(responseTimeHistory["backend"], now,
                                               b.responseTime, 100, vb)]
    /\ refreshes' = refreshes + 1
    /\ UNCHANGED <<secret, kv, pc, body, today, svc, history, resp, method, hdr,
                   reply, clean, posts, top, odd, log>>

----------------------------------------------------------------------------
(* Specifications *)

\* short runs, requests interleave
Next ==
    \E p \in ProcSet :
        \/ Unauthorized(p, FALSE)
        \/ Authorized(p, FALSE, FALSE, MaxConcPosts)
        \/ StoreLatest(p, ConcBodies, FALSE)
        \/ InvalidDate(p)
        \/ GetHistory(p)
        \/ PutHistory(p)

Spec == Init /\ [][Next]_vars

\* short runs, requests execute one after another
NextSeq ==
    \E p \in ProcSet :
        \/ Unauthorized(p, TRUE)
        \/ Authorized(p, TRUE, FALSE, MaxPosts)
        \/ StoreLatest(p, RichBodies, FALSE)
        \/ InvalidDate(p)
        \/ GetHistory(p)
        \/ PutHistory(p)

SpecSeq == Init /\ [][NextSeq]_vars

\* long runs start with the secret configured, as the deployment does
InitLong == Init /\ secret = "abc"

\* long runs, requests may overlap (a rejected request touches nothing, so
\* letting it overlap another one adds no behaviour of the store)
NextLong ==
    \E p \in ProcSet :
        \/ Unauthorized(p, TRUE)
        \/ Authorized(p, FALSE, TRUE, 0)
        \/ StoreLatest(p, LongBodies, TRUE)
        \/ InvalidDate(p)
        \/ GetHistory(p)
        \/ PutHistory(p)

SpecLong == InitLong /\ [][NextLong]_vars

\* long runs, requests execute one after another
NextLongSeq ==
    \E p \in ProcSet :
        \/ Unauthorized(p, TRUE)
        \/ Authorized(p, TRUE, TRUE, 0)
        \/ StoreLatest(p, LongBodies, TRUE)
        \/ InvalidDate(p)
        \/ GetHistory(p)
        \/ PutHistory(p)

SpecLongSeq == InitLong /\ [][NextLongSeq]_vars

\* the whole route: every method, one request after another, with a store
\* that may fail
NextApi ==
    \E p \in ProcSet :
        \/ Preflight(p, TRUE)
        \/ NotAllowed(p, TRUE)
        \/ GetStatus(p, TRUE)
        \/ ReadHistory(p)
        \/ ReadLatest(p)
        \/ Unauthorized(p, TRUE)
        \/ Authorized(p, TRUE, FALSE, MaxApiPosts)
        \/ StoreLatest(p, ConcBodies, FALSE)
        \/ InvalidDate(p)
        \/ GetHistory(p)
        \/ PutHistory(p)
        \/ StoreError(p)

SpecApi == Init /\ [][NextApi]_vars

\* the dashboard alone
NextDash == RefreshAll

SpecDash == Init /\ [][NextDash]_vars

----------------------------------------------------------------------------
(* Vocabulary of the properties *)

Hist(service) == KVGetHistory(kv, service)
Idle == \A p \in ProcSet : ~InFlight(p)
Dates(h) == {h[i].date : i \in 1..Len(h)}
LoggedDates == {log[i].date : i \in 1..Len(log)}

\* the request in context p has just put the history of its current service
PutStep(p) == pc[p] = "put" /\ pc'[p] # "put"

\* the day vocabulary and the mapping of a check status into it (spec 4.1)
DayStatus == {"operational", "partial", "down"}
MapToDayStatus(status) ==
    IF status = "degraded" THEN "partial"
    ELSE IF status = "down" THEN "down"
    ELSE "operational"

\* the successful POSTs of one date, in order of completion
DayWrites(date) == SelectSeq(log, LAMBDA e : e.date = date)

\* sequential POSTs of one date applied to a history, one after another
RECURSIVE Replay(_, _, _, _)
Replay(h, writes, service, date) ==
    IF writes = <<>> THEN h
    ELSE Replay(Aggregate(h, Head(writes).checks, service, date),
                Tail(writes), service, date)

Orderings(n) ==
    {f \in [1..n -> 1..n] : \A i, j \in 1..n : i # j => f[i] # f[j]}

----------------------------------------------------------------------------
(* Properties *)

\* C1: in every reachable state, whatever the interleaving of the requests,
\* the history stored for each service has at most 30 entries.
C1_AtMostThirty ==
    \A s \in ServiceSet : Len(Hist(s)) <= KeepDays

\* C1 witness: more than 30 dates were written, one request overlapped
\* another (the later date completed first), and a stored history is full.
C1_Witness ==
    /\ Cardinality(LoggedDates) > KeepDays
    /\ odd
    /\ \E i \in 1..(Len(log) - 1) : log[i].date > log[i + 1].date
    /\ \E s \in ServiceSet : Len(Hist(s)) = KeepDays

\* C2: after sequential successful writes spanning more than 30 dates, the
\* stored history holds exactly the 30 most recent dates written, ordered
\* from oldest to newest.
C2_MostRecentThirtyInOrder ==
    (Idle /\ Cardinality(LoggedDates) > KeepDays) =>
        \A s \in ServiceSet :
            /\ Dates(Hist(s)) =
                  {d \in LoggedDates :
                      Cardinality({e \in LoggedDates : e > d}) < KeepDays}
            /\ \A i \in 1..(Len(Hist(s)) - 1) : Hist(s)[i].date < Hist(s)[i + 1].date

\* C3: in every reachable state, whatever the interleaving of the requests,
\* no stored history has two entries with the same date.
C3_UniqueDates ==
    \A s \in ServiceSet :
        \A i, j \in 1..Len(Hist(s)) : i # j => Hist(s)[i].date # Hist(s)[j].date

\* C3 witness: two overlapping requests for the same date both succeeded and
\* the date has a single entry (with the count of a single check).
C3_Witness ==
    /\ Idle
    /\ Len(log) = 2
    /\ log[1].date = log[2].date
    /\ \E s \in ServiceSet :
        /\ Len(Hist(s)) = 1
        /\ Hist(s)[1].date = log[1].date
        /\ Hist(s)[1].checks = 1

\* C4: with sequential writes, a write on a date whose entry is down leaves
\* that entry down, whatever the incoming status.
C4_Step ==
    \A p \in ProcSet :
        LET s == Services[svc[p]]
            i == FindIndex(Hist(s), today[p]) IN
        (PutStep(p) /\ i >= 1 /\ Hist(s)[i].status = "down") =>
            /\ Len(KVGetHistory(kv', s)) = Len(Hist(s))
            /\ KVGetHistory(kv', s)[i].date = today[p]
            /\ KVGetHistory(kv', s)[i].status = "down"

C4_DownStaysDown == [][C4_Step]_vars

\* C4 witness: a day's entry is down after a later same-day write whose
\* incoming status was operational.
C4_Witness ==
    /\ Idle
    /\ Len(log) >= 2
    /\ \E s \in ServiceSet :
        LET last == log[Len(log)]
            i == FindIndex(Hist(s), last.date) IN
        /\ IncomingStatus(last.checks, s) = "operational"
        /\ i >= 1
        /\ Hist(s)[i].status = "down"
        /\ Hist(s)[i].checks >= 2

\* C5: every stored history entry has a status of the day vocabulary
\* {operational, partial, down}.
C5_DayVocabulary ==
    \A s \in ServiceSet :
        \A i \in 1..Len(Hist(s)) : Hist(s)[i].status \in DayStatus

\* C6: a write on a date the stored history has no entry for adds exactly one
\* entry for that date, with checks = 1 and the mapped incoming status.
C6_Step ==
    \A p \in ProcSet :
        LET s == Services[svc[p]]
            new == KVGetHistory(kv', s) IN
        (PutStep(p) /\ FindIndex(Hist(s), today[p]) = 0) =>
            /\ Cardinality({i \in 1..Len(new) : new[i].date = today[p]}) = 1
            /\ \A i \in 1..Len(new) :
                new[i].date = today[p] =>
                    /\ new[i].checks = 1
                    /\ new[i].status =
                          MapToDayStatus(IncomingStatus(body[p].checks, s))

C6_NewDayEntry == [][C6_Step]_vars

\* C7: with sequential writes, once a degraded check was recorded for a
\* service on a date, a later operational check of the same date does not
\* make the entry operational again: it is partial or down.
C7_DegradedSticks ==
    Idle =>
        \A s \in ServiceSet :
            \A i, j \in 1..Len(log) :
                (/\ i < j
                 /\ log[i].date = log[j].date
                 /\ IncomingStatus(log[i].checks, s) = "degraded"
                 /\ IncomingStatus(log[j].checks, s) = "operational"
                 /\ FindIndex(Hist(s), log[i].date) >= 1) =>
                    Hist(s)[FindIndex(Hist(s), log[i].date)].status \in {"partial", "down"}

\* C8: the status of a day's entry does not depend on the order of the
\* day's checks: every permutation of the checks recorded on a date, applied
\* one after another to a history without that date, ends with the status
\* the store holds.
C8_OrderIndependent ==
    Idle =>
        \A s \in ServiceSet :
            \A d \in LoggedDates :
                LET writes == DayWrites(d)
                    n == Len(writes)
                    i == FindIndex(Hist(s), d) IN
                i >= 1 =>
                    \A f \in Orderings(n) :
                        LET h == Replay(<<>>, [k \in 1..n |-> writes[f[k]]], s, d) IN
                        h[Len(h)].status = Hist(s)[i].status

\* C9: a same-day write whose incoming status is unknown or absent leaves
\* the status of the existing entry as it was.
C9_Step ==
    \A p \in ProcSet :
        LET s == Services[svc[p]]
            i == FindIndex(Hist(s), today[p]) IN
        (PutStep(p) /\ i >= 1 /\ IncomingStatus(body[p].checks, s) = "unknown") =>
            KVGetHistory(kv', s)[i].status = Hist(s)[i].status

C9_UnknownKeepsStatus == [][C9_Step]_vars

\* C10: on a same-day write where the existing entry and the incoming check
\* both carry a response time, the stored response time becomes the rounded
\* mean of the existing stored value and the incoming value.
C10_Step ==
    \A p \in ProcSet :
        LET s == Services[svc[p]]
            i == FindIndex(Hist(s), today[p]) IN
        (/\ PutStep(p)
         /\ i >= 1
         /\ Hist(s)[i].responseTime # Null
         /\ s \in DOMAIN body[p].checks
         /\ body[p].checks[s].responseTime # Null) =>
            KVGetHistory(kv', s)[i].responseTime =
                RoundMean(Hist(s)[i].responseTime, body[p].checks[s].responseTime)

C10_MeanOfLastAndIncoming == [][C10_Step]_vars

\* the response time the incoming check carries for a service (Null: none)
CarriedResponseTime(checks, service) ==
    IF service \in DOMAIN checks /\ "responseTime" \in DOMAIN checks[service]
    THEN checks[service].responseTime ELSE Null

\* C11: on a same-day write where exactly one of the existing and the
\* incoming response time is present, the present one is stored; when
\* neither is present, null is stored.  (The incoming value 0 is left to
\* C10 and C26: the first case is stated for a positive incoming value.)
C11_Step ==
    \A p \in ProcSet :
        LET s == Services[svc[p]]
            i == FindIndex(Hist(s), today[p])
            incoming == CarriedResponseTime(body[p].checks, s) IN
        (PutStep(p) /\ i >= 1) =>
            /\ (Hist(s)[i].responseTime = Null /\ incoming > 0) =>
                  KVGetHistory(kv', s)[i].responseTime = incoming
            /\ (Hist(s)[i].responseTime # Null /\ incoming = Null) =>
                  KVGetHistory(kv', s)[i].responseTime = Hist(s)[i].responseTime
            /\ (Hist(s)[i].responseTime = Null /\ incoming = Null) =>
                  KVGetHistory(kv', s)[i].responseTime = Null

C11_OnePresentIsKept == [][C11_Step]_vars

\* ---------------------------------------------------------------------
\* the route: authorisation, methods, reads

\* a request arrives in context p (a repeated identical rejected request
\* leaves the state as it is and is not an arrival step)
ArrivalStep(p) ==
    /\ pc[p] = "idle"
    /\ <<pc[p], resp[p], method[p], hdr[p]>>' # <<pc[p], resp[p], method[p], hdr[p]>>

\* C12: when a secret is configured, a POST whose Authorization header is
\* not exactly "Bearer <secret>" is answered 401 and leaves every history
\* and the latest record as they were; a POST with exactly that header is
\* not answered 401 and goes on to read its body
C12_Step ==
    \A p \in ProcSet :
        (secret # "" /\ ArrivalStep(p) /\ method'[p] = "POST") =>
            IF hdr'[p] = Bearer(secret)
            THEN pc'[p] = "parse" /\ resp'[p] # 401
            ELSE resp'[p] = 401 /\ pc'[p] = "idle" /\ kv' = kv

C12_RejectsWithoutBearer == [][C12_Step]_vars

\* a POST with a wrong token was rejected after the store had been written
C12_Witness ==
    /\ secret # ""
    /\ Len(log) >= 1
    /\ LatestKey \in DOMAIN kv
    /\ \E p \in ProcSet :
        method[p] = "POST" /\ hdr[p] = Bearer("wrong") /\ resp[p] = 401

\* what a GET response holds when it shows the store as it is
StoredBody ==
    [history |-> [s \in ServiceSet |->
                    IF HistoryKey(s) \in DOMAIN kv THEN kv[HistoryKey(s)] ELSE <<>>],
     latest |-> IF LatestKey \in DOMAIN kv THEN kv[LatestKey] ELSE <<>>]

\* a step of a GET request in context p
GetStep(p) ==
    \/ ArrivalStep(p) /\ method'[p] = "GET"
    \/ pc[p] \in {"read", "readLatest"} /\ <<pc[p], svc[p]>>' # <<pc[p], svc[p]>>

\* C13: a GET is never stopped by missing data: each read goes on whatever
\* the store holds, a service whose key was never written is answered with
\* the empty array, a latest record never written with the empty mapping
C13_MissingReadsAsEmpty ==
    \A p \in ProcSet :
        /\ pc[p] = "read" => ENABLED ReadHistory(p)
        /\ pc[p] = "readLatest" => ENABLED ReadLatest(p)
        /\ pc[p] \in {"read", "readLatest"} =>
              \A s \in DOMAIN history[p] :
                  HistoryKey(s) \notin DOMAIN kv => history[p][s] = <<>>
        /\ reply[p] # NoReply =>
              /\ DOMAIN reply[p].history = ServiceSet
              /\ \A s \in ServiceSet :
                    HistoryKey(s) \notin DOMAIN kv => reply[p].history[s] = <<>>
              /\ LatestKey \notin DOMAIN kv => reply[p].latest = <<>>

\* a GET on the store nobody has written was answered 200 with three empty
\* histories and an empty latest
C13_Witness ==
    /\ DOMAIN kv = {}
    /\ \E p \in ProcSet :
        /\ method[p] = "GET" /\ resp[p] = 200 /\ pc[p] = "idle"
        /\ reply[p] = [history |-> [s \in ServiceSet |-> <<>>], latest |-> <<>>]

\* C14: no step of a GET changes a key of the store; a GET body produced
\* with no put since the GET was entered equals the stored histories and the
\* stored latest; a GET answered while the previous GET's body is still
\* current (no put in between) returns that same body
C14_Step ==
    \A p \in ProcSet :
        /\ GetStep(p) => kv' = kv
        /\ (pc[p] = "readLatest" /\ resp'[p] = 200 /\ clean[p] /\ reply[p] # NoReply) =>
              reply'[p] = reply[p]

C14_GetIsPure ==
    /\ [](\A p \in ProcSet : (reply[p] # NoReply /\ clean[p]) => reply[p] = StoredBody)
    /\ [][C14_Step]_vars

\* a second GET has read the three histories of a written store while the
\* body of the first GET is still current
C14_Witness ==
    /\ Len(log) >= 1
    /\ \E p \in ProcSet :
        /\ pc[p] = "readLatest" /\ clean[p]
        /\ reply[p] # NoReply
        /\ reply[p].history["frontend"] # <<>>
        /\ history[p] = reply[p].history

\* C18 (as claimed): when a store call fails inside the loop over the
\* services, the other services still get their entry for the date
C18_Step ==
    \A p \in ProcSet :
        (/\ pc[p] \in {"get", "put"}
         /\ ValidTimestamp(body[p])
         /\ pc'[p] = "idle" /\ resp'[p] = 500) =>
            \A j \in 1..Len(Services) :
                j # svc[p] =>
                    ToISODate(body[p].timestamp) \in Dates(KVGetHistory(kv', Services[j]))

C18_WritesAreIndependent == [][C18_Step]_vars

\* C19: a request whose method is not GET, POST or OPTIONS is answered 405,
\* an OPTIONS request 200, and neither changes the store: the store changes
\* only in steps of an accepted POST
C19_Step ==
    /\ \A p \in ProcSet :
          ArrivalStep(p) =>
              /\ method'[p] \notin {"GET", "POST", "OPTIONS"} =>
                    resp'[p] = 405 /\ pc'[p] = "idle" /\ kv' = kv
              /\ method'[p] = "OPTIONS" =>
                    resp'[p] = 200 /\ pc'[p] = "idle" /\ kv' = kv
    /\ kv' # kv =>
          \E p \in ProcSet : method[p] = "POST" /\ pc[p] \in {"parse", "put"}

C19_OtherMethods == [][C19_Step]_vars

\* a PUT or DELETE was answered 405 on a written store
C19_Witness ==
    /\ Len(log) >= 1
    /\ \E p \in ProcSet : method[p] \in {"PUT", "DELETE"} /\ resp[p] = 405

\* ---------------------------------------------------------------------
\* what a successful POST leaves in the store

\* the request in context p answers {success: true}
SuccessStep(p) == pc[p] = "put" /\ pc'[p] = "idle" /\ resp'[p] = 200

\* C15: with POSTs one after another, when a POST succeeds the latest
\* record holds exactly the services of its checks plus timestamp, with the
\* values of the payload: nothing of the previous latest record is left
C15_Step ==
    \A p \in ProcSet :
        SuccessStep(p) =>
            LET l == kv'[LatestKey]
                c == body[p].checks IN
            /\ DOMAIN l = DOMAIN c \cup {"timestamp"}
            /\ l["timestamp"] = body[p].timestamp
            /\ \A s \in DOMAIN c : l[s] = c[s]

C15_LatestIsReplaced == [][C15_Step]_vars

\* the last POST succeeded, its checks lack a service that the checks of the
\* successful POST before it had, and latest has no field for that service
C15_Witness ==
    /\ Idle
    /\ Len(log) >= 2
    /\ \E p \in ProcSet : method[p] = "POST" /\ resp[p] = 200
    /\ DOMAIN kv[LatestKey] = DOMAIN log[Len(log)].checks \cup {"timestamp"}
    /\ \E s \in DOMAIN log[Len(log) - 1].checks : s \notin DOMAIN kv[LatestKey]

\* the check recordCheck is said to use for a service absent from checks
SyntheticCheck == [status |-> "unknown", responseTime |-> Null]

\* C16: with POSTs one after another, every put of a POST leaves an entry
\* for the date of the timestamp in the history of its service, a service
\* absent from checks is aggregated exactly as if checks held
\* {status: unknown, responseTime: null} for it, and when the POST succeeds
\* each of the three histories has an entry for that date
C16_Step ==
    \A p \in ProcSet :
        LET s == Services[svc[p]]
            c == body[p].checks
            full == [x \in DOMAIN c \cup {s} |->
                        IF x \in DOMAIN c THEN c[x] ELSE SyntheticCheck] IN
        PutStep(p) =>
            /\ today[p] = ToISODate(body[p].timestamp)
            /\ today[p] \in Dates(KVGetHistory(kv', s))
            /\ s \notin DOMAIN c =>
                  KVGetHistory(kv', s) = Aggregate(Hist(s), full, s, today[p])
            /\ SuccessStep(p) =>
                  \A x \in ServiceSet : today[p] \in Dates(KVGetHistory(kv', x))

C16_AllServicesUpdated == [][C16_Step]_vars

\* the last successful POST had no check for a service, and that service
\* has an entry for the POST's date with status unknown and no response time
C16_Witness ==
    /\ Idle
    /\ Len(log) >= 1
    /\ \E s \in ServiceSet \ DOMAIN log[Len(log)].checks :
        \E i \in 1..Len(Hist(s)) :
            /\ Hist(s)[i].date = log[Len(log)].date
            /\ Hist(s)[i].status = "unknown"
            /\ Hist(s)[i].responseTime = Null
            /\ Hist(s)[i].checks = 1

\* C17: requests may overlap.  A put writes the aggregate of the history
\* the request read before, whatever the store holds at the put: the entry
\* of the date gets the counter the request read plus 1 (1 if it read no
\* entry).  So when all requests have completed, the counter of a date is at
\* least 1 and at most the number of successful POSTs of that date; the
\* witness shows it can be less (a lost update)
C17_Step ==
    \A p \in ProcSet :
        LET s == Services[svc[p]]
            read == FindIndex(history[p], today[p])
            h == KVGetHistory(kv', s) IN
        PutStep(p) =>
            /\ FindIndex(h, today[p]) >= 1
            /\ h[FindIndex(h, today[p])].checks =
                  IF read >= 1 THEN history[p][read].checks + 1 ELSE 1

C17_PutWritesWhatWasRead ==
    /\ [](Idle => \A s \in ServiceSet : \A i \in 1..Len(Hist(s)) :
                    /\ Hist(s)[i].checks >= 1
                    /\ Hist(s)[i].checks <= Len(DayWrites(Hist(s)[i].date)))
    /\ [][C17_Step]_vars

\* two POSTs of the same date both succeeded, the counter of the date is 1
\* and the entry is not down although one of the two reported down
C17_Witness ==
    /\ Idle
    /\ Len(log) = 2
    /\ log[1].date = log[2].date
    /\ \A p \in ProcSet : resp[p] = 200
    /\ \E s \in ServiceSet :
        LET i == FindIndex(Hist(s), log[1].date) IN
        /\ i >= 1
        /\ Hist(s)[i].checks = 1
        /\ Hist(s)[i].status # "down"
        /\ \E k \in 1..2 : IncomingStatus(log[k].checks, s) = "down"

\* C20: with POSTs one after another, every stored entry has a counter of
\* at least 1 and the counter is the number of successful POSTs so far on
\* the entry's date
C20_ChecksCountPosts ==
    Idle => \A s \in ServiceSet : \A i \in 1..Len(Hist(s)) :
                /\ Hist(s)[i].checks >= 1
                /\ Hist(s)[i].checks = Len(DayWrites(Hist(s)[i].date))

\* ---------------------------------------------------------------------
\* frame of a write, entries over time

\* C21: with POSTs one after another, a put on a date that has an entry
\* leaves the history as long as it was, the entry of the date where it
\* was, and every other entry as it was, at its position
C21_Step ==
    \A p \in ProcSet :
        LET s == Services[svc[p]]
            i == FindIndex(Hist(s), today[p])
            h == KVGetHistory(kv', s) IN
        (PutStep(p) /\ i >= 1) =>
            /\ Len(h) = Len(Hist(s))
            /\ h[i].date = today[p]
            /\ \A j \in 1..Len(h) : j # i => h[j] = Hist(s)[j]

C21_ReplacedInPlace == [][C21_Step]_vars

\* a full history whose entry of an earlier day (not the last one) was
\* written a second time
C21_Witness ==
    /\ Idle
    /\ \E s \in ServiceSet :
        /\ Len(Hist(s)) = KeepDays
        /\ \E i \in 1..(Len(Hist(s)) - 1) : Hist(s)[i].checks = 2

\* C22: requests may overlap.  In every step, a date that has an entry in
\* a service's history still has one afterwards, unless the history was
\* full, the date was its first entry and the step appended a new date
C22_Step ==
    \A s \in ServiceSet :
        LET h == KVGetHistory(kv', s) IN
        \A i \in 1..Len(Hist(s)) :
            \/ Hist(s)[i].date \in Dates(h)
            \/ /\ i = 1
               /\ Len(Hist(s)) = KeepDays
               /\ Len(h) = KeepDays
               /\ h[KeepDays].date \notin Dates(Hist(s))

C22_OnlyRetentionDestroys == [][C22_Step]_vars

\* C25: requests may overlap.  In no step does the stored status of a date
\* go from down to operational or partial
C25_Step ==
    \A s \in ServiceSet :
        LET h == KVGetHistory(kv', s) IN
        \A i \in 1..Len(Hist(s)) :
            Hist(s)[i].status = "down" =>
                \A j \in 1..Len(h) :
                    h[j].date = Hist(s)[i].date =>
                        h[j].status \notin {"operational", "partial"}

C25_DownStaysDownConcurrently == [][C25_Step]_vars

\* C26: with POSTs one after another, the entry a put creates for a new day
\* has the response time of the check when the check carries one (0
\* included) and null when it carries none
C26_Step ==
    \A p \in ProcSet :
        LET s == Services[svc[p]]
            c == body[p].checks
            h == KVGetHistory(kv', s) IN
        (PutStep(p) /\ FindIndex(Hist(s), today[p]) = 0) =>
            /\ FindIndex(h, today[p]) >= 1
            /\ h[FindIndex(h, today[p])].responseTime =
                  IF s \in DOMAIN c /\ "responseTime" \in DOMAIN c[s]
                  THEN c[s].responseTime ELSE Null

C26_NewDayResponseTime == [][C26_Step]_vars

\* ---------------------------------------------------------------------
\* order of the writes of a POST, failures, open mode

\* the POST in context p ends with an error
FailStep(p) ==
    pc[p] \in {"parse", "get", "put"} /\ pc'[p] = "idle" /\ resp'[p] = 500

\* C23: with requests one after another, an accepted POST first writes
\* latest and nothing else, then the history of one service per put, in
\* the order frontend, backend, database; it ends with 200 after the put of
\* the last service or with 500, and when it ends with 500 the store is
\* left as it is: latest as the request wrote it and the entries of the
\* services it had reached
C23_Step ==
    \A p \in ProcSet :
        /\ (pc[p] = "parse" /\ pc'[p] = "get") =>
              /\ DOMAIN kv' = DOMAIN kv \cup {LatestKey}
              /\ \A k \in DOMAIN kv \ {LatestKey} : kv'[k] = kv[k]
        /\ (pc[p] = "put" /\ kv' # kv) =>
              /\ LatestKey \in DOMAIN kv
              /\ DOMAIN kv' = DOMAIN kv \cup {HistoryKey(Services[svc[p]])}
              /\ \A k \in DOMAIN kv \ {HistoryKey(Services[svc[p]])} : kv'[k] = kv[k]
              /\ \A j \in 1..(svc[p] - 1) : today[p] \in Dates(Hist(Services[j]))
        /\ (pc[p] \in {"parse", "get", "put"} /\ pc'[p] = "idle") =>
              /\ resp'[p] \in {200, 500}
              /\ resp'[p] = 200 => pc[p] = "put" /\ svc[p] = Len(Services) /\ kv' # kv
        /\ FailStep(p) =>
              /\ kv' = kv
              /\ pc[p] # "parse" =>
                    /\ LatestKey \in DOMAIN kv'
                    /\ kv'[LatestKey] = LatestValue(body[p])
                    /\ ValidTimestamp(body[p]) =>
                          \A j \in 1..(svc[p] - 1) :
                              ToISODate(body[p].timestamp)
                                  \in Dates(KVGetHistory(kv', Services[j]))

C23_SequentialNoRollback == [][C23_Step]_vars

\* no POST has succeeded, the last one ended with 500 after it had written
\* latest and the history of frontend, and database has no history
C23_Witness ==
    /\ Len(log) = 0
    /\ LatestKey \in DOMAIN kv
    /\ Hist("frontend") # <<>>
    /\ Hist("database") = <<>>
    /\ \E p \in ProcSet : method[p] = "POST" /\ resp[p] = 500 /\ pc[p] = "idle"

\* C24: when no secret is configured, a POST is never answered 401 and
\* goes on to read its body whatever its Authorization header is
C24_Step ==
    \A p \in ProcSet :
        (secret = "" /\ ArrivalStep(p) /\ method'[p] = "POST") =>
            pc'[p] = "parse" /\ resp'[p] # 401

C24_OpenMode ==
    /\ [](secret = "" => \A p \in ProcSet : resp[p] # 401)
    /\ [][C24_Step]_vars

\* no secret is configured and a POST without Authorization header
\* succeeded and wrote the store
C24_Witness ==
    /\ secret = ""
    /\ Len(log) >= 1
    /\ LatestKey \in DOMAIN kv
    /\ \E p \in ProcSet :
        method[p] = "POST" /\ hdr[p] = NoHeader /\ resp[p] = 200 /\ pc[p] = "idle"

\* ---------------------------------------------------------------------
\* the dashboard

\* C27: after any sequence of refreshes, the graph history of frontend and
\* of backend holds at most 5 points, in increasing order of timestamp
C27_GraphHistoryBounded ==
    \A s \in GraphServices :
        LET h == responseTimeHistory[s] IN
        /\ Len(h) <= GraphPoints
        /\ \A i, j \in 1..Len(h) : i < j => h[i].timestamp < h[j].timestamp

====
